---- MODULE Spec2Model ----
\* Model of vinaigrette's makemessages management command
\* (vinaigrette/management/commands/makemessages.py).
\*
\* Text is modelled structurally.  A string is a sequence of characters
\* (tokens); a line of a catalog (.po) file is a record naming its prefix
\* and payload; the temporary file is the sequence of the chunks written
\* to it, and its line numbers are computed from the newlines in them.
EXTENDS Integers, Sequences, FiniteSets, TLC

VARIABLES
    registry,         \* vinaigrette._registry: model -> registration
    db,               \* database: model -> pk -> attribute -> value
    po_file_sources,  \* Command.po_file_sources (class attribute)
    tmp,              \* the file TEMP_FILE_NAME: [exists, chunks]
    po,               \* catalog files: path -> sequence of lines
    options,          \* options of the current handle() call
    pc,               \* position inside handle()
    log,              \* steps the current handle() call has taken
    written,          \* strings written by the last create_tmp_file call
    poIn,             \* catalogs as update_po_references read them
    startSources,     \* po_file_sources when the current call started
    registered,       \* the registry as it was registered at start-up
    runs              \* number of handle() calls started so far

vars == <<registry, db, po_file_sources, tmp, po, options, pc, log,
          written, poIn, startSources, registered, runs>>

----------------------------------------------------------------------------
\* Bounds of the model.

MaxRecords == 2      \* records per model table
MaxRuns == 2         \* handle() calls in one process
MaxRefLines == 2     \* '#: ' lines per catalog entry
MaxEntries == 1      \* entries per generated catalog

----------------------------------------------------------------------------
\* Generic helpers.

RECURSIVE SortedSeq(_)
SortedSeq(S) ==
    IF S = {} THEN <<>>
    ELSE LET x == CHOOSE y \in S : \A z \in S : y <= z
         IN  <<x>> \o SortedSeq(S \ {x})

RECURSIVE Concat(_)
Concat(ss) == IF ss = <<>> THEN <<>> ELSE Head(ss) \o Concat(Tail(ss))

RECURSIVE CountIn(_, _)
CountIn(s, x) ==
    IF s = <<>> THEN 0
    ELSE (IF Head(s) = x THEN 1 ELSE 0) + CountIn(Tail(s), x)

Range(s) == {s[i] : i \in DOMAIN s}

SeqsUpTo(S, n) == UNION {[1..k -> S] : k \in 0..n}

----------------------------------------------------------------------------
\* The registry and the database.

\* Registered models, in the order of their _meta.object_name.
ModelName == <<"shop.Category", "shop.Product">>
Models == DOMAIN ModelName

\* Category has an integer primary key, Product a non-numeric one.
PkIsInt == <<TRUE, FALSE>>

\* Category holds MaxRecords records, Product a single one.
PksOf(m) == IF m = 1 THEN 1..MaxRecords ELSE {1}

\* Characters: "a" is an ordinary one, CR, LF and PCT stand for
\* '\r', '\n' and '%'.
Values == {<<>>, <<"a">>, <<"CR", "PCT", "LF">>}

AttrsOf(m) == IF m = 1 THEN {"name", "title"} ELSE {"name"}

Registration(fields, properties, restrict_to) ==
    [fields |-> fields, properties |-> properties,
     manager |-> "None", restrict_to |-> restrict_to]

\* restrict_to is modelled by the set of primary keys the filter keeps;
\* the empty set stands for None (no restriction).
Registries ==
    {[m \in Models |->
        IF m = 1 THEN Registration(<<"name">>, <<"title">>, r)
                 ELSE Registration(<<"name">>, <<>>, {})] : r \in {{}, {2}}}

AllDbs ==
    {[m \in Models |-> IF m = 1 THEN d1 ELSE d2] :
        d1 \in [PksOf(1) -> [AttrsOf(1) -> Values]],
        d2 \in [PksOf(2) -> [AttrsOf(2) -> Values]]}

\* Databases in which every attribute of every record holds the same value.
UniformDbs ==
    {[m \in Models |-> [pk \in PksOf(m) |-> [a \in AttrsOf(m) |-> v]]] : v \in Values}

----------------------------------------------------------------------------
\* create_tmp_file

\* Mutant: only the two header lines are reserved, not the "zero-line".
ReservedSources_TwoElements == <<<<>>, <<>>>>

\* po_file_sources = ['', '', '']: the empty string is the empty sequence.
ReservedSources == <<<<>>, <<>>, <<>>>>

\* '{}/{}:{}'.format(modelname, field, idnum)
Describe(m, field, idnum) == <<ModelName[m], field, idnum>>

\* try: idnum = int(instance.pk)  except: idnum = 0
IdNum(m, pk) == IF PkIsInt[m] THEN pk ELSE 0

\* val.replace('\r', '').replace('%', '%%')
RECURSIVE Escape(_)
Escape(val) ==
    IF val = <<>> THEN <<>>
    ELSE LET c == Head(val)
         IN  (IF c = "CR" THEN <<>>
              ELSE IF c = "PCT" THEN <<"PCT", "PCT">>
              ELSE <<c>>) \o Escape(Tail(val))

\* '{!r}'.format(s): quoted, with a newline written as backslash-n.
RECURSIVE ReprBody(_)
ReprBody(s) ==
    IF s = <<>> THEN <<>>
    ELSE (IF Head(s) = "LF" THEN <<"\\n">>
          ELSE IF Head(s) = "CR" THEN <<"\\r">>
          ELSE <<Head(s)>>) \o ReprBody(Tail(s))

Repr(s) == <<"'">> \o ReprBody(s) \o <<"'">>

\* 'ugettext({!r})\n'.format(...)
UgettextLine(val) == <<"ugettext(">> \o Repr(Escape(val)) \o <<")", "LF">>

HeaderChunks ==
    << <<"#coding:utf-8", "LF">>,
       <<"from django.utils.translation import ugettext", "LF">> >>

\* Number of the line on which the next write to the file starts.
NextLine(chunks) == 1 + CountIn(Concat(chunks), "LF")

\* Mutant: no test against strings_seen.
WriteField_NotSeenUnchecked(m, pk, field, st) ==
    LET val == db[m][pk][field]
    IN  IF val # <<>>
        THEN [st EXCEPT
                !.strings_seen = @ \cup {val},
                !.sources = Append(@, Describe(m, field, IdNum(m, pk))),
                !.written = Append(@, [model |-> m, pk |-> pk, field |-> field,
                                       val |-> val, line |-> NextLine(st.chunks)]),
                !.chunks = Append(@, UgettextLine(val))]
        ELSE st

\* Lines 101-105: one (instance, field) step of the inner loop.
WriteField(m, pk, field, st) ==
    LET val == db[m][pk][field]
    IN  IF val # <<>> /\ val \notin st.strings_seen
        THEN [st EXCEPT
                !.strings_seen = @ \cup {val},
                !.sources = Append(@, Describe(m, field, IdNum(m, pk))),
                !.written = Append(@, [model |-> m, pk |-> pk, field |-> field,
                                       val |-> val, line |-> NextLine(st.chunks)]),
                !.chunks = Append(@, UgettextLine(val))]
        ELSE st

RECURSIVE ForFields(_, _, _, _, _)
ForFields(m, pk, fields, i, st) ==
    IF i > Len(fields) THEN st
    ELSE ForFields(m, pk, fields, i + 1, WriteField(m, pk, fields[i], st))

\* manager.filter(restrict_to) / manager.all(), .order_by('pk')
QuerySet(reg, m) ==
    SortedSeq(IF reg[m].restrict_to # {}
              THEN {pk \in DOMAIN db[m] : pk \in reg[m].restrict_to}
              ELSE DOMAIN db[m])

RECURSIVE ForInstances(_, _, _, _, _)
ForInstances(m, qs, fields, i, st) ==
    IF i > Len(qs) THEN st
    ELSE ForInstances(m, qs, fields, i + 1, ForFields(m, qs[i], fields, 1, st))

\* Lines 75-87: fields = reg['fields']; if properties: fields += properties.keys()
\* The list object stored in the registry is the one extended.
FieldsAfterUpdate(reg, m) ==
    IF reg[m].properties # <<>> THEN reg[m].fields \o reg[m].properties
    ELSE reg[m].fields

\* Where a call of create_tmp_file may raise: nowhere, in codecs.open,
\* or in the database query of one model.
FailPoints ==
    {[at |-> "none", model |-> 0], [at |-> "open", model |-> 0]}
    \cup {[at |-> "query", model |-> m] : m \in Models}

RECURSIVE ForModels(_, _, _, _)
ForModels(models, i, st, fail) ==
    IF i > Len(models) THEN st
    ELSE LET m   == models[i]
             st1 == [st EXCEPT !.strings_seen = {},
                               !.reg[m].fields = FieldsAfterUpdate(st.reg, m)]
         IN  IF fail.at = "query" /\ fail.model = m
             THEN [st1 EXCEPT !.raised = TRUE]
             ELSE ForModels(models, i + 1,
                            ForInstances(m, QuerySet(st1.reg, m),
                                         st1.reg[m].fields, 1, st1),
                            fail)

\* The whole of create_tmp_file, lines 59-108.
create_tmp_file(fail) ==
    IF fail.at = "open"
    THEN [reg |-> registry, sources |-> po_file_sources, chunks |-> tmp.chunks,
          exists |-> tmp.exists, written |-> <<>>, strings_seen |-> {},
          raised |-> TRUE]
    ELSE ForModels(SortedSeq(DOMAIN registry), 1,
                   [reg |-> registry, sources |-> po_file_sources,
                    chunks |-> HeaderChunks, exists |-> TRUE,
                    written |-> <<>>, strings_seen |-> {}, raised |-> FALSE],
                   fail)

----------------------------------------------------------------------------
\* Catalog (.po) files.
\*
\* A line is [k, obs, toks, id]: k is what the line starts with
\* ("ref" '#: ', "pyfmt" '#, python-format', "flag" another '#, ' line,
\* "comment" a '#. ' line, "msgid", "msgstr", "blank"), obs tells whether the
\* line carries the obsolete prefix '#~ ', toks are the references of a
\* '#: ' line, and id is the remaining text of the line.

TmpRef(n) == [t |-> "tmp", n |-> n, s |-> <<>>]   \* 'makemessages-temp-file.py:n'
Text(s)   == [t |-> "text", n |-> 0, s |-> s]     \* any other reference text
CodeRef   == Text(<<"shop/views.py:10">>)

Line(k, obs, toks, id) == [k |-> k, obs |-> obs, toks |-> toks, id |-> id]
RefLine(toks)  == Line("ref", FALSE, toks, <<>>)
PyFmtLine      == Line("pyfmt", FALSE, <<>>, <<>>)
FuzzyLine      == Line("flag", FALSE, <<>>, <<"fuzzy">>)
MsgId(obs, id) == Line("msgid", obs, <<>>, id)
MsgStr(obs, id) == Line("msgstr", obs, <<>>, id)
BlankLine      == Line("blank", FALSE, <<>>, <<>>)
\* last_line = '' before the first line of a file
EmptyString    == Line("empty", FALSE, <<>>, <<>>)

\* Lines 146-149.
obsolete_warning ==
    << Line("comment", FALSE, <<>>, <<"Obsolete translation kept alive">>),
       RefLine(<<Text(<<"obsolete:0">>)>>) >>

\* line.startswith('#: ')
StartsWithRef(line) == line.k = "ref" /\ ~line.obs

\* self.TEMP_FILE_NAME in last_line
MentionsTmp(line) == \E j \in DOMAIN line.toks : line.toks[j].t = "tmp"

\* Lines 121-125: python index n is index n + 1 here.
replace_line_reference(tok, sources) ==
    IF tok.t = "tmp"
    THEN IF tok.n < Len(sources) THEN Text(sources[tok.n + 1]) ELSE tok
    ELSE tok

\* re_line_reference.sub(replace_line_reference, line)
SubReferences(line, sources) ==
    [line EXCEPT !.toks = [j \in DOMAIN line.toks |->
                              replace_line_reference(line.toks[j], sources)]]

\* Mutant: every '#, python-format' line is skipped.
SkipPythonFormat_AnyEntry(line, last_line) == line.k = "pyfmt" /\ ~line.obs

\* Lines 160-162: the test that makes the loop skip a '#, python-format' line.
SkipPythonFormat(line, last_line) ==
    /\ line.k = "pyfmt" /\ ~line.obs
    /\ StartsWithRef(last_line)
    /\ MentionsTmp(last_line)

\* Lines 169-171: old warnings are not preserved.
SkipOldWarning(line) == \E w \in DOMAIN obsolete_warning : line = obsolete_warning[w]

\* Lines 156-178: the loop over the lines of one file.
RECURSIVE RewriteLines(_, _, _, _, _, _)
RewriteLines(lines, i, last_line, new_contents, keep, sources) ==
    IF i > Len(lines) THEN new_contents
    ELSE LET line == lines[i] IN
         IF StartsWithRef(line)
         THEN RewriteLines(lines, i + 1, line,
                           Append(new_contents, SubReferences(line, sources)),
                           keep, sources)
         ELSE IF SkipPythonFormat(line, last_line)
         THEN RewriteLines(lines, i + 1, last_line, new_contents, keep, sources)
         ELSE IF keep /\ SkipOldWarning(line)
         THEN RewriteLines(lines, i + 1, last_line, new_contents, keep, sources)
         ELSE LET withWarning ==
                      IF keep /\ line.obs /\ line.k = "msgid"
                      THEN new_contents \o obsolete_warning ELSE new_contents
                  stripped ==
                      IF keep /\ line.obs THEN [line EXCEPT !.obs = FALSE] ELSE line
              IN  RewriteLines(lines, i + 1, stripped,
                               Append(withWarning, stripped), keep, sources)

\* get_po_paths: every .po file below the locale directories.  The framework
\* command regenerates django.po; djangojs.po belongs to another domain and
\* is only found, read and rewritten.
PoPaths == {"django.po", "djangojs.po"}

\* Lines 151-182 for every path.
update_po_references(files, opts, sources) ==
    [p \in PoPaths |->
        RewriteLines(files[p], 1, EmptyString, <<>>, opts.keep_obsolete, sources)]

----------------------------------------------------------------------------
\* Catalog entries as gettext writes them.

FlagLines(flag) ==
    IF flag = "pyfmt" THEN <<PyFmtLine>>
    ELSE IF flag = "fuzzy" THEN <<FuzzyLine>> ELSE <<>>

Entry(refLines, flag, id) ==
    refLines \o FlagLines(flag) \o <<MsgId(FALSE, id), MsgStr(FALSE, id), BlankLine>>

ObsoleteEntry(flag, id) ==
    FlagLines(flag) \o <<MsgId(TRUE, id), MsgStr(TRUE, id), BlankLine>>

----------------------------------------------------------------------------
\* The framework's makemessages command (super().handle), as far as this
\* command depends on it: xgettext scans the source tree, which includes the
\* temporary file while it exists, and msgmerge keeps the translations that
\* are no longer referenced as obsolete entries.

\* The ugettext(...) calls of the temporary file with their line numbers.
UgettextCalls(file) ==
    IF ~file.exists THEN <<>>
    ELSE LET at(k) == [text |-> file.chunks[k],
                       line |-> NextLine(SubSeq(file.chunks, 1, k - 1))]
             all   == [k \in DOMAIN file.chunks |-> at(k)]
             isCall(c) == c.text # <<>> /\ Head(c.text) = "ugettext("
         IN  SelectSeq(all, isCall)

\* One entry per distinct string, referring to every line that holds it and
\* flagged python-format when the string contains a percent sign.
ExtractedEntries(calls) ==
    LET first(k) == \A j \in 1..(k - 1) : calls[j].text # calls[k].text
        refsOf(k) ==
            LET same(c) == c.text = calls[k].text
                hits    == SelectSeq(calls, same)
            IN  [j \in DOMAIN hits |-> TmpRef(hits[j].line)]
        entry(k) ==
            IF first(k)
            THEN Entry(<<RefLine(refsOf(k))>>,
                       IF "PCT" \in Range(calls[k].text) THEN "pyfmt" ELSE "none",
                       calls[k].text)
            ELSE <<>>
    IN  Concat([k \in DOMAIN calls |-> entry(k)])

CodeEntry == Entry(<<RefLine(<<CodeRef>>)>>, "pyfmt", <<"Hello %s">>)

\* Entries of the old catalog whose string is not extracted any more.
StaleEntries(old, fresh) ==
    LET freshIds == {fresh[i].id : i \in {j \in DOMAIN fresh : fresh[j].k = "msgid"}}
        stale(l) == l.k = "msgid" /\ l.id \notin freshIds
        ids      == SelectSeq(old, stale)
    IN  Concat([i \in DOMAIN ids |-> ObsoleteEntry("none", ids[i].id)])

FrameworkCatalog(file, old) ==
    LET fresh == ExtractedEntries(UgettextCalls(file)) \o CodeEntry
    IN  fresh \o StaleEntries(old, fresh)

\* Catalogs after a successful framework run.
SuperHandle(files, file) ==
    [files EXCEPT !["django.po"] = FrameworkCatalog(file, @)]

----------------------------------------------------------------------------
\* Command.handle, lines 40-52, one action per step.

\* options['no-data-messages'] is True unless --no-data-messages is given.
OptionSets ==
    [no_data_messages : BOOLEAN, keep_obsolete : BOOLEAN, keep_data_file : BOOLEAN]

Idle == pc \in {"idle", "done", "raised"}

\* Mutant: the option is not consulted.
handle_start_OptionIgnored ==
    /\ Idle
    /\ runs < MaxRuns
    /\ \E o \in OptionSets :
          /\ options' = o
          /\ pc' = "create"
    /\ runs' = runs + 1
    /\ log' = <<>>
    /\ startSources' = po_file_sources
    /\ UNCHANGED <<registry, db, po_file_sources, tmp, po, written, poIn, registered>>

\* Line 41: the command is invoked.
handle_start ==
    /\ Idle
    /\ runs < MaxRuns
    /\ \E o \in OptionSets :
          /\ options' = o
          /\ pc' = IF ~o.no_data_messages THEN "super_only" ELSE "create"
    /\ runs' = runs + 1
    /\ log' = <<>>
    /\ startSources' = po_file_sources
    /\ UNCHANGED <<registry, db, po_file_sources, tmp, po, written, poIn, registered>>

\* Line 42: return super().handle(*args, **options)
handle_super_only ==
    /\ pc = "super_only"
    /\ \E ok \in BOOLEAN :
          /\ po' = IF ok THEN SuperHandle(po, tmp) ELSE po
          /\ pc' = IF ok THEN "done" ELSE "raised"
          /\ log' = Append(log, IF ok THEN "super" ELSE "super_raise")
    /\ UNCHANGED <<registry, db, po_file_sources, tmp, options, written, poIn,
                   startSources, registered, runs>>

\* Line 44: self.create_tmp_file(file_path=self.TEMP_FILE_NAME)
handle_create ==
    /\ pc = "create"
    /\ \E fail \in FailPoints :
          LET r == create_tmp_file(fail) IN
          /\ registry' = r.reg
          /\ po_file_sources' = r.sources
          /\ tmp' = [exists |-> r.exists, chunks |-> r.chunks]
          /\ written' = r.written
          /\ pc' = IF r.raised THEN "raised" ELSE "extract"
          /\ log' = Append(log, IF r.raised THEN "create_raise" ELSE "create")
    /\ UNCHANGED <<db, po, options, poIn, startSources, registered, runs>>

\* Lines 46-47: try: super().handle(*args, **options)
handle_super ==
    /\ pc = "extract"
    /\ \E ok \in BOOLEAN :
          /\ po' = IF ok THEN SuperHandle(po, tmp) ELSE po
          /\ log' = Append(log, IF ok THEN "super" ELSE "super_raise")
    /\ pc' = "finally"
    /\ UNCHANGED <<registry, db, po_file_sources, tmp, options, written, poIn,
                   startSources, registered, runs>>

\* Mutant: the exception of the framework's handle is swallowed.
handle_finally_ExceptionSwallowed ==
    /\ pc = "finally"
    /\ tmp' = IF ~options.keep_data_file
              THEN [exists |-> FALSE, chunks |-> <<>>] ELSE tmp
    /\ log' = Append(log, IF ~options.keep_data_file THEN "unlink" ELSE "keep")
    /\ pc' = "update"
    /\ UNCHANGED <<registry, db, po_file_sources, po, options, written, poIn,
                   startSources, registered, runs>>

\* Lines 48-50: finally: if not options.get('keep-data-file'): os.unlink(...)
\* A pending exception propagates after the clause.
handle_finally ==
    /\ pc = "finally"
    /\ tmp' = IF ~options.keep_data_file
              THEN [exists |-> FALSE, chunks |-> <<>>] ELSE tmp
    /\ log' = Append(log, IF ~options.keep_data_file THEN "unlink" ELSE "keep")
    /\ pc' = IF log[Len(log)] = "super_raise" THEN "raised" ELSE "update"
    /\ UNCHANGED <<registry, db, po_file_sources, po, options, written, poIn,
                   startSources, registered, runs>>

\* Line 52: self.update_po_references(options); it raises before any file is
\* rewritten when get_po_paths finds no locale directory.
handle_update ==
    /\ pc = "update"
    /\ \E ok \in BOOLEAN :
          /\ po' = IF ok THEN update_po_references(po, options, po_file_sources) ELSE po
          /\ pc' = IF ok THEN "done" ELSE "raised"
          /\ log' = Append(log, IF ok THEN "update" ELSE "update_raise")
    /\ poIn' = po
    /\ UNCHANGED <<registry, db, po_file_sources, tmp, options, written,
                   startSources, registered, runs>>

\* Between two invocations records are saved in the database.
DatabaseChanges ==
    /\ pc \in {"done", "raised"}
    /\ runs < MaxRuns
    /\ \E d \in UniformDbs : d # db /\ db' = d
    /\ UNCHANGED <<registry, po_file_sources, tmp, po, options, pc, log, written,
                   poIn, startSources, registered, runs>>

JsCatalog ==
    Entry(<<RefLine(<<Text(<<"static/app.js:3">>)>>)>>, "none", <<"Save">>)
    \o ObsoleteEntry("none", <<"Old">>)

DefaultOptions ==
    [no_data_messages |-> TRUE, keep_obsolete |-> FALSE, keep_data_file |-> FALSE]

NoFile == [exists |-> FALSE, chunks |-> <<>>]

\* A fresh process: the class attribute holds its three reserved elements,
\* no temporary file exists, no django.po has been generated yet.
Init ==
    /\ registry \in Registries
    /\ registered = registry
    /\ db \in UniformDbs
    /\ po_file_sources = ReservedSources
    /\ startSources = ReservedSources
    /\ tmp = NoFile
    /\ po = [p \in PoPaths |-> IF p = "djangojs.po" THEN JsCatalog ELSE <<>>]
    /\ poIn = po
    /\ options = DefaultOptions
    /\ pc = "idle"
    /\ log = <<>>
    /\ written = <<>>
    /\ runs = 0

Next ==
    \/ handle_start
    \/ handle_super_only
    \/ handle_create
    \/ handle_super
    \/ handle_finally
    \/ handle_update
    \/ DatabaseChanges

Spec == Init /\ [][Next]_vars

----------------------------------------------------------------------------
\* update_po_references over the catalogs the framework can write: any
\* sequence of well-formed entries.  The command is about to execute line 52.

RefTokChoices == {<<TmpRef(3)>>, <<CodeRef>>, <<CodeRef, TmpRef(3)>>}

EntryShapes ==
    [refs : SeqsUpTo({RefLine(t) : t \in RefTokChoices}, MaxRefLines),
     flag : {"none", "pyfmt", "fuzzy"}, obs : {FALSE}]
    \cup [refs : {<<>>}, flag : {"none", "fuzzy"}, obs : {TRUE}]

EntryOfShape(sh, id) ==
    IF sh.obs THEN ObsoleteEntry(sh.flag, id) ELSE Entry(sh.refs, sh.flag, id)

Catalogs ==
    {Concat([i \in DOMAIN shs |-> EntryOfShape(shs[i], <<"msg", i>>)]) :
        shs \in SeqsUpTo(EntryShapes, MaxEntries)}

\* po_file_sources after a run that wrote no string, or one string.
SourceSamples ==
    {ReservedSources, Append(ReservedSources, Describe(1, "name", 1))}

\* djangojs.po as gettext wrote it, or as an earlier --keep-obsolete run left it.
JsCatalogs ==
    {JsCatalog, RewriteLines(JsCatalog, 1, EmptyString, <<>>, TRUE, ReservedSources)}

InitPo ==
    /\ registry \in {r \in Registries : r[1].restrict_to = {}}
    /\ registered = registry
    /\ db \in {d \in UniformDbs : d[1][1]["name"] = <<>>}
    /\ po_file_sources \in SourceSamples
    /\ startSources = ReservedSources
    /\ tmp = NoFile
    /\ po \in {[p \in PoPaths |-> IF p = "djangojs.po" THEN js ELSE c] :
                  js \in JsCatalogs, c \in Catalogs}
    /\ poIn = po
    /\ options \in {o \in OptionSets : o.no_data_messages /\ ~o.keep_data_file}
    /\ pc = "update"
    /\ log = <<"create", "super", "unlink">>
    /\ written = <<>>
    /\ runs = 1

NextPo == handle_update

SpecPo == InitPo /\ [][NextPo]_vars

----------------------------------------------------------------------------
\* create_tmp_file over every database of the bounded schema.  The command
\* is about to execute line 44; the registry is as registered, or as an
\* earlier call in the same process left it.

AfterEarlierCall(reg) ==
    [m \in Models |-> [reg[m] EXCEPT !.fields = FieldsAfterUpdate(reg, m)]]

InitTmp ==
    /\ registered \in Registries
    /\ registry \in {registered, AfterEarlierCall(registered)}
    /\ db \in AllDbs
    /\ po_file_sources = ReservedSources
    /\ startSources = ReservedSources
    /\ tmp = NoFile
    /\ po = [p \in PoPaths |-> IF p = "djangojs.po" THEN JsCatalog ELSE <<>>]
    /\ poIn = po
    /\ options = DefaultOptions
    /\ pc = "create"
    /\ log = <<>>
    /\ written = <<>>
    /\ runs = 1

NextTmp == handle_create

SpecTmp == InitTmp /\ [][NextTmp]_vars

----------------------------------------------------------------------------
\* Vocabulary of the properties.

\* The lines of a file: its content split at the newlines.
RECURSIVE SplitLines(_, _)
SplitLines(chars, cur) ==
    IF chars = <<>> THEN (IF cur = <<>> THEN <<>> ELSE <<cur>>)
    ELSE IF Head(chars) = "LF" THEN <<cur>> \o SplitLines(Tail(chars), <<>>)
    ELSE SplitLines(Tail(chars), Append(cur, Head(chars)))

FileLines(file) == SplitLines(Concat(file.chunks), <<>>)

\* The reference create_tmp_file builds for a written string.
SourceOf(w) == Describe(w.model, w.field, IdNum(w.model, w.pk))

\* The '#: ' lines of a catalog other than the inserted '#: obsolete:0'.
IsReference(l) == StartsWithRef(l) /\ l # obsolete_warning[2]
References(lines) == SelectSeq(lines, IsReference)

DataRun == options.no_data_messages
Terminated == pc \in {"done", "raised"}

----------------------------------------------------------------------------
\* C1: in the first run of a fresh process, every line N >= 3 of the
\* temporary file holds exactly one written string, po_file_sources[N]
\* describes the record and field of that string, and update_po_references
\* replaces every 'makemessages-temp-file.py:N' on a '#: ' line of every
\* catalog by that description.
C1_ReferencesAligned ==
    /\ (runs = 1 /\ pc \in {"extract", "finally"}) =>
          /\ Len(FileLines(tmp)) = 2 + Len(written)
          /\ \A k \in DOMAIN written :
                /\ written[k].line = 2 + k
                /\ FileLines(tmp)[written[k].line] =
                      <<"ugettext(">> \o Repr(Escape(written[k].val)) \o <<")">>
                /\ db[written[k].model][written[k].pk][written[k].field]
                      = written[k].val
                /\ po_file_sources[written[k].line + 1] = SourceOf(written[k])
    /\ (runs = 1 /\ pc = "done" /\ DataRun) =>
          \A p \in PoPaths :
             LET before == References(poIn[p])
                 after  == References(po[p])
             IN  /\ Len(before) = Len(after)
                 /\ \A i \in DOMAIN before :
                       /\ Len(before[i].toks) = Len(after[i].toks)
                       /\ \A j \in DOMAIN before[i].toks, k \in DOMAIN written :
                             before[i].toks[j] = TmpRef(written[k].line)
                                => after[i].toks[j] = Text(SourceOf(written[k]))

C1_Witness ==
    /\ runs = 1 /\ pc = "done" /\ DataRun
    /\ Len(written) >= 2
    /\ \E i \in DOMAIN poIn["django.po"] :
          /\ StartsWithRef(poIn["django.po"][i])
          /\ \E j \in DOMAIN poIn["django.po"][i].toks :
                poIn["django.po"][i].toks[j] = TmpRef(written[2].line)
    /\ \E i \in DOMAIN po["django.po"] :
          /\ StartsWithRef(po["django.po"][i])
          /\ \E j \in DOMAIN po["django.po"][i].toks :
                po["django.po"][i].toks[j] = Text(SourceOf(written[2]))

----------------------------------------------------------------------------
\* C5: with --no-data-messages handle never reaches create_tmp_file, the
\* extractor step of the data path or update_po_references; its single step
\* is the framework's handle, which leaves the temporary file,
\* po_file_sources and the registry alone and changes the catalogs only as
\* the framework does.
C5_NoDataOnlyDelegates ==
    /\ [](~DataRun => pc \notin {"create", "extract", "finally", "update"})
    /\ [][pc = "super_only" =>
            /\ pc' \in {"done", "raised"}
            /\ tmp' = tmp
            /\ po_file_sources' = po_file_sources
            /\ registry' = registry
            /\ written' = written
            /\ po' \in {po, SuperHandle(po, tmp)}
            /\ log' \in {<<"super">>, <<"super_raise">>}]_vars

\* A --no-data-messages --keep-obsolete run has ended: the catalog still
\* holds temp-file references and '#~ ' lines.
C5_Witness ==
    /\ pc = "done" /\ ~DataRun /\ options.keep_obsolete
    /\ log = <<"super">>
    /\ Len(po_file_sources) > Len(ReservedSources)
    /\ \E i \in DOMAIN po["django.po"] :
          StartsWithRef(po["django.po"][i]) /\ MentionsTmp(po["django.po"][i])
    /\ \E i \in DOMAIN po["djangojs.po"] : po["djangojs.po"][i].obs

----------------------------------------------------------------------------
\* C7: the steps of a data run are ordered: while the extractor runs the
\* temporary file exists and holds everything create_tmp_file writes;
\* update_po_references runs only after create_tmp_file and the extractor
\* have returned and the finally clause has run; after the extractor has
\* raised, update_po_references does not run and handle ends by raising.
C7_StepsInOrder ==
    /\ pc \in {"extract", "finally"} =>
          /\ log[1] = "create"
          /\ tmp.exists
          /\ tmp.chunks = HeaderChunks \o
                [k \in DOMAIN written |-> UgettextLine(written[k].val)]
    /\ (pc = "update" \/ "update" \in Range(log) \/ "update_raise" \in Range(log)) =>
          /\ Len(log) >= 3
          /\ log[1] = "create" /\ log[2] = "super"
          /\ log[3] \in {"unlink", "keep"}
    /\ (DataRun /\ "super_raise" \in Range(log)) =>
          /\ pc \in {"finally", "raised"}
          /\ "update" \notin Range(log)

C7_Witness ==
    /\ pc = "raised" /\ DataRun
    /\ log = <<"create", "super_raise", "unlink">>
    /\ Len(written) > 0

----------------------------------------------------------------------------
\* C6: for every model, create_tmp_file writes one ugettext line and appends
\* one po_file_sources entry per distinct non-empty value of the translated
\* fields and properties of the queried records, nothing for empty values,
\* and attributes each value to its first occurrence in ascending primary
\* key order, then field order.
QueriedPks(m) ==
    IF registered[m].restrict_to # {}
    THEN DOMAIN db[m] \cap registered[m].restrict_to ELSE DOMAIN db[m]

C6_OneLinePerDistinctValue ==
    pc = "extract" =>
       /\ tmp.chunks = HeaderChunks \o
             [k \in DOMAIN written |-> UgettextLine(written[k].val)]
       /\ po_file_sources = startSources \o
             [k \in DOMAIN written |-> SourceOf(written[k])]
       /\ \A m \in Models :
             LET ks    == {k \in DOMAIN written : written[k].model = m}
                 attrs == registered[m].fields \o registered[m].properties
                 found == {db[m][pk][attrs[f]] :
                              pk \in QueriedPks(m), f \in DOMAIN attrs} \ {<<>>}
             IN  /\ {written[k].val : k \in ks} = found
                 /\ Cardinality(ks) = Cardinality(found)
                 /\ \A k \in ks :
                       LET w == written[k] IN
                       /\ w.pk \in QueriedPks(m)
                       /\ \E f \in DOMAIN attrs :
                             /\ attrs[f] = w.field
                             /\ db[m][w.pk][w.field] = w.val
                             /\ \A pk2 \in QueriedPks(m), f2 \in DOMAIN attrs :
                                   db[m][pk2][attrs[f2]] = w.val
                                      => (pk2 > w.pk \/ (pk2 = w.pk /\ f2 >= f))

\* A value shared by two records and two attributes, next to an empty one.
C6_Witness ==
    /\ pc = "extract"
    /\ registered[1].restrict_to = {}
    /\ db[1][1]["title"] = <<>>
    /\ db[1][1]["name"] # <<>>
    /\ db[1][2]["title"] = db[1][1]["name"]
    /\ db[1][2]["name"] \notin {<<>>, db[1][1]["name"]}
    /\ Len(written) = 3

----------------------------------------------------------------------------
\* C9: without --keep-obsolete, update_po_references only drops the
\* '#, python-format' lines that directly follow a '#: ' line mentioning the
\* temporary file and only substitutes, on '#: ' lines, the temp-file
\* references whose number is an index of po_file_sources; every other line
\* and every other reference is written back unchanged, in order.
DroppedLines(lines) ==
    {i \in DOMAIN lines :
        /\ lines[i].k = "pyfmt" /\ ~lines[i].obs
        /\ i > 1
        /\ StartsWithRef(lines[i - 1]) /\ MentionsTmp(lines[i - 1])}

KeptLines(lines) == SortedSeq(DOMAIN lines \ DroppedLines(lines))

InRange(tok) == tok.t = "tmp" /\ tok.n < Len(po_file_sources)

C9_OnlyReferencesAndFlagsChange ==
    (pc = "done" /\ DataRun /\ ~options.keep_obsolete) =>
       \A p \in PoPaths :
          LET kept == KeptLines(poIn[p]) IN
          /\ Len(po[p]) = Len(kept)
          /\ \A j \in DOMAIN kept :
                LET a == poIn[p][kept[j]]
                    b == po[p][j]
                IN  IF StartsWithRef(a)
                    THEN /\ b.k = a.k /\ b.obs = a.obs /\ b.id = a.id
                         /\ Len(b.toks) = Len(a.toks)
                         /\ \A t \in DOMAIN a.toks :
                               b.toks[t] = IF InRange(a.toks[t])
                                           THEN Text(po_file_sources[a.toks[t].n + 1])
                                           ELSE a.toks[t]
                    ELSE b = a

\* A flag line was dropped, a reference substituted, another reference left
\* alone, and '#~ ' lines were written back.
C9_Witness ==
    /\ pc = "done" /\ DataRun /\ ~options.keep_obsolete
    /\ DroppedLines(poIn["django.po"]) # {}
    /\ \E i \in DOMAIN po["django.po"] :
          /\ StartsWithRef(po["django.po"][i])
          /\ Len(po["django.po"][i].toks) = 2
          /\ po["django.po"][i].toks[1] = CodeRef
          /\ po["django.po"][i].toks[2] = Text(Describe(1, "name", 1))
    /\ \E i \in DOMAIN po["djangojs.po"] : po["djangojs.po"][i].obs

\* An out-of-range reference went through update_po_references.
C9_WitnessOutOfRange ==
    /\ pc = "done" /\ DataRun /\ ~options.keep_obsolete
    /\ \E i \in DOMAIN po["django.po"] :
          /\ StartsWithRef(po["django.po"][i])
          /\ MentionsTmp(po["django.po"][i])

----------------------------------------------------------------------------
\* C2: after update_po_references no entry whose '#: ' lines mention the
\* temporary file carries a '#, python-format' line, and the flag lines of
\* every other entry are written unchanged.
EntryNo(lines, i) == 1 + Cardinality({j \in 1..(i - 1) : lines[j].k = "msgstr"})

DatabaseDerived(lines) ==
    {EntryNo(lines, i) :
        i \in {j \in DOMAIN lines : StartsWithRef(lines[j]) /\ MentionsTmp(lines[j])}}

FlagsOf(lines, e) ==
    LET numbered == [i \in DOMAIN lines |-> [l |-> lines[i], e |-> EntryNo(lines, i)]]
        isFlag(x) == x.e = e /\ x.l.k \in {"pyfmt", "flag"}
        flags     == SelectSeq(numbered, isFlag)
    IN  [i \in DOMAIN flags |-> flags[i].l]

C2_FormatFlagRemoved ==
    (pc = "done" /\ DataRun) =>
       \A p \in PoPaths :
          \A e \in 1..(1 + Len(poIn[p])) :
             IF e \in DatabaseDerived(poIn[p])
             THEN PyFmtLine \notin Range(FlagsOf(po[p], e))
             ELSE FlagsOf(po[p], e) = FlagsOf(poIn[p], e)

----------------------------------------------------------------------------
\* C3: with --keep-obsolete, after update_po_references no line of a catalog
\* begins with '#~ ', every '#~ msgid ' line of the input is preceded by one
\* copy of the two warning lines, and warning lines of the input are not
\* carried over: the output holds one pair per '#~ msgid ' line of the input.
ObsoleteMsgIds(lines) ==
    Cardinality({i \in DOMAIN lines : lines[i].obs /\ lines[i].k = "msgid"})

C3_ObsoleteKeptOnce ==
    (pc = "done" /\ DataRun /\ options.keep_obsolete) =>
       \A p \in PoPaths :
          /\ \A i \in DOMAIN po[p] : ~po[p][i].obs
          /\ CountIn(po[p], obsolete_warning[1]) = ObsoleteMsgIds(poIn[p])
          /\ CountIn(po[p], obsolete_warning[2]) = ObsoleteMsgIds(poIn[p])
          /\ \A i \in DOMAIN po[p] :
                po[p][i] = obsolete_warning[1] =>
                   /\ i + 2 <= Len(po[p])
                   /\ po[p][i + 1] = obsolete_warning[2]
                   /\ po[p][i + 2].k = "msgid"

----------------------------------------------------------------------------
\* C4: when a data run of handle has terminated, normally or by an
\* exception of any step, the temporary file does not exist unless
\* --keep-data-file was given, and exists if it was given and written.
C4_TemporaryFileRemoved ==
    (Terminated /\ DataRun) =>
       /\ ~options.keep_data_file => ~tmp.exists
       /\ (options.keep_data_file /\ log[1] = "create") => tmp.exists

----------------------------------------------------------------------------
\* C8: at the start of update_po_references of every run, po_file_sources
\* holds the three reserved elements plus one element per string this run
\* wrote, and po_file_sources[N] describes the string on line N.
C8_NoStateBetweenRuns ==
    pc = "update" =>
       /\ Len(po_file_sources) = Len(ReservedSources) + Len(written)
       /\ \A k \in DOMAIN written :
             /\ written[k].line + 1 <= Len(po_file_sources)
             /\ po_file_sources[written[k].line + 1] = SourceOf(written[k])

----------------------------------------------------------------------------
\* C10: create_tmp_file only reads the registry: every registration stays
\* as it was registered.
C10_RegistryUnchanged == registry = registered

====
